---- MODULE Spec2Model ----
(***************************************************************************)
(* Model of harvester.py, the OpenWeatherMap forecast harvester.           *)
(*                                                                         *)
(* Two parts share the module:                                             *)
(*   - the entity transformer (is_night, generate_id and the slot loop of  *)
(*     get_weather_by_code) as operators, exercised by TransformSpec;      *)
(*   - the orchestrator (get_weather_forecasted, the worker pool, the      *)
(*     per-city pipeline get_weather_by_code -> post_data, and the final   *)
(*     report of __main__) as a state machine, exercised by Spec,          *)
(*     FairSpec and PoolSpec.                                              *)
(*                                                                         *)
(* Times are POSIX seconds (UTC).  A forecast slot is the part of one      *)
(* element of data['list'] the transformer reads: dt, weather[0].icon,     *)
(* weather[0].id, plus two facts about the environment: `alt`, the solar   *)
(* altitude in degrees that ephem computes for the slot, and `complete`,   *)
(* whether every key the entity literal reads is present (a missing key    *)
(* raises KeyError/IndexError inside the loop).                            *)
(***************************************************************************)
EXTENDS Integers, Sequences, FiniteSets, TLC

VARIABLES
    \* ---- orchestrator -------------------------------------------------
    codes,               \* args.cities: the requested city codes
    scenario,            \* which answers the two remote services may give
    mainpc,              \* position of the main thread
    pc,                  \* position of each submitted get_weather_by_code call
    out,                 \* the local list `out` of each call
    fetch_failed,        \* whether the except branch of get_weather_by_code ran
    loaded,              \* value of persisted_entities read by post_data (0 outside the update)
    post_status,         \* "none" | "ok" | "failed": outcome of requests.post
    sent,                \* the POST requests each call issued
    ret,                 \* return value of each finished call
    persisted_entities,  \* module global
    in_error_entities,   \* module global
    report,              \* what __main__ logged at the end, <<>> before
    \* ---- transformer harness -------------------------------------------
    t_city,              \* city code handed to the transformer
    t_data,              \* response.json() handed to the transformer
    t_now1,              \* wall clock of the first run
    t_now2,              \* wall clock of the second run
    t_run1,              \* result of the first run, <<>> before
    t_run2               \* result of the second run, <<>> before

pvars == <<codes, scenario, mainpc, pc, out, fetch_failed, loaded,
           post_status, sent, ret, persisted_entities, in_error_entities, report>>
tvars == <<t_city, t_data, t_now1, t_now2, t_run1, t_run2>>
vars == <<pvars, tvars>>

----------------------------------------------------------------------------
(* Program constants *)

MaxWorkers == 5
Day == 86400
Hour == 3600
SlotHours == 3
TwilightAltitude == -6

None == "<None>"

OWM_WEATHER_MAPPING ==
    (200 :> "lightRain, thunder") @@ (201 :> "heavyRain, thunder") @@
    (202 :> "heavyRainShower, thunder") @@ (210 :> ", thunder") @@
    (211 :> ", thunder") @@ (212 :> ", thunder") @@ (221 :> ", thunder") @@
    (230 :> "drizzle, thunder") @@ (231 :> "drizzle, thunder") @@
    (232 :> "drizzle, thunder") @@
    (300 :> "drizzle") @@ (301 :> "drizzle") @@ (302 :> "drizzle") @@
    (310 :> "drizzle") @@ (311 :> "drizzle") @@ (312 :> "drizzle") @@
    (313 :> "drizzle") @@ (314 :> "drizzle") @@ (321 :> "drizzle") @@
    (500 :> "lightRain") @@ (501 :> "lightRain") @@ (502 :> "heavyRain") @@
    (503 :> "heavyRain") @@ (504 :> "heavyRain") @@ (511 :> "sleet") @@
    (520 :> "lightRain, shower") @@ (521 :> "heavyRainShower") @@
    (522 :> "heavyRainShower") @@ (530 :> "heavyRainShower") @@
    (600 :> "lightSnow") @@ (601 :> "lightSnow") @@ (602 :> "heavySnow") @@
    (611 :> "sleet") @@ (612 :> "sleetShower") @@
    (615 :> "lightRain, lightSnow") @@ (616 :> "lightRain, lightSnow") @@
    (620 :> "lightSnow, shower") @@ (621 :> "lightSnow, shower") @@
    (622 :> "heavySnow, shower") @@
    (701 :> "mist") @@ (711 :> "smoke") @@ (721 :> "haze") @@
    (731 :> "sand, dust whirls") @@ (741 :> "fog") @@ (751 :> "sand") @@
    (761 :> "dust") @@ (762 :> None) @@ (771 :> None) @@ (781 :> None) @@
    (800 :> "sunnyDay") @@ (801 :> "partlyCloudy") @@ (802 :> "partlyCloudy") @@
    (803 :> "cloudy") @@ (804 :> "overcast") @@
    (900 :> None) @@ (901 :> None) @@ (902 :> None) @@ (903 :> None) @@
    (904 :> None) @@ (905 :> None) @@ (906 :> None)

\* dict.get: None for a key the table does not hold
MappingGet(code) ==
    IF code \in DOMAIN OWM_WEATHER_MAPPING THEN OWM_WEATHER_MAPPING[code] ELSE None

----------------------------------------------------------------------------
(* Bounds of the model *)

MaxSlots == 2      \* slots per response handed to the transformer harness
FeedSlots == 2     \* slots of a full forecast in the orchestrator runs
MaxCodes == 3      \* requested city codes in Spec
Overflow == 1      \* requested city codes beyond the pool size in PoolSpec

----------------------------------------------------------------------------
(* Entity transformer *)

\* str.endswith on an icon given as its sequence of characters
EndsWith(s, c) == Len(s) > 0 /\ s[Len(s)] = c

\* ephem's sun.alt * 180 / math.pi for the slot: an input of the model
SunAltitude(forecast) == forecast.alt

is_night_altitude_only(forecast) == SunAltitude(forecast) < TwilightAltitude

is_night(forecast) ==
    IF EndsWith(forecast.icon, "n") THEN TRUE
    ELSE IF EndsWith(forecast.icon, "d") THEN FALSE
    ELSE SunAltitude(forecast) < TwilightAltitude

\* datetime.hour of a UTC datetime
HourOf(t) == (t \div Hour) % 24

generate_id_no_index(city_code, index, from_date, to_date) ==
    "OpenWeatherMap-WeatherForecast-" \o city_code \o "-"
        \o ToString(HourOf(from_date)) \o "-" \o ToString(HourOf(to_date))

generate_id(city_code, index, from_date, to_date) ==
    "OpenWeatherMap-WeatherForecast-" \o city_code \o "-" \o ToString(index)
        \o "-" \o ToString(HourOf(from_date)) \o "-" \o ToString(HourOf(to_date))

InitDate_untruncated(init_datetime) == init_datetime

\* init_datetime.replace(hour=0, minute=0, second=0, microsecond=0)
InitDate(init_datetime) == init_datetime - (init_datetime % Day)

\* timedelta.days: the floor of the difference in days
DaysBetween(from_date, init_date) == (from_date - init_date) \div Day

\* the body of the slot loop up to out.append(entity)
Entity(city_code, forecast, init_datetime) ==
    LET from_date == forecast.dt
        to_date == from_date + SlotHours * Hour
        index == DaysBetween(from_date, InitDate(init_datetime))
        entity == [type |-> "WeatherForecast",
                   id |-> generate_id(city_code, index, from_date, to_date),
                   dateRetrieved |-> init_datetime,
                   stationCode |-> city_code,
                   validity |-> [from |-> from_date, to |-> to_date]]
        weather_type == MappingGet(forecast.id)
    IN IF weather_type # None
       THEN [weatherType |->
                [type |-> "Text",
                 value |-> IF is_night(forecast)
                           THEN weather_type \o ", night" ELSE weather_type]]
            @@ entity
       ELSE entity

RECURSIVE SlotLoop(_, _, _, _, _)
SlotLoop(city_code, list, init_datetime, i, acc) ==
    IF i > Len(list) THEN [out |-> acc, raised |-> FALSE]
    ELSE IF ~list[i].complete THEN [out |-> acc, raised |-> TRUE]
    ELSE SlotLoop(city_code, list, init_datetime, i + 1,
                  Append(acc, Entity(city_code, list[i], init_datetime)))

\* the try block of get_weather_by_code once response.json() returned `data`:
\* reading data['city'] raises before the loop when the city block is missing
Transform(city_code, data, init_datetime) ==
    IF ~data.has_city THEN [out |-> <<>>, raised |-> TRUE]
    ELSE SlotLoop(city_code, data.list, init_datetime, 1, <<>>)

----------------------------------------------------------------------------
(* Inputs *)

Cities == <<"3128760", "2643743">>

\* wall-clock instants: two on one UTC day, one a few seconds into the next
Clock == {10 * Hour, Day - 1, Day + 5}

\* slot timestamps: 00:00, 00:30, 03:00 and 21:00 of one day, 00:00 and
\* 03:00 of the next
Timestamps == {0, Hour \div 2, 3 * Hour, 21 * Hour, Day, Day + 3 * Hour}

DayIcon == <<"0", "1", "d">>
NightIcon == <<"0", "1", "n">>
PlainIcon == <<"0", "1">>

Slot(dt, icon, id, alt, complete) ==
    [dt |-> dt, icon |-> icon, id |-> id, alt |-> alt, complete |-> complete]

\* slots that differ in time, one of them with a key missing
TimeSlots ==
    {Slot(dt, DayIcon, 800, 30, TRUE) : dt \in Timestamps}
        \cup {Slot(3 * Hour, DayIcon, 800, 30, FALSE)}

\* slots that differ in weather: a mapped code, a code mapped to None, a
\* code the table does not hold; the sun just below and just at -6 degrees
WeatherSlots ==
    {Slot(0, icon, id, alt, TRUE) :
        icon \in {DayIcon, NightIcon, PlainIcon},
        id \in {800, 210, 905, 999},
        alt \in {TwilightAltitude - 1, TwilightAltitude}}

RECURSIVE SeqsUpTo(_, _)
SeqsUpTo(S, n) ==
    IF n = 0 THEN {<<>>}
    ELSE LET shorter == SeqsUpTo(S, n - 1)
         IN shorter \cup {Append(s, x) : s \in {t \in shorter : Len(t) = n - 1}, x \in S}

Response(list) == [has_city |-> TRUE, list |-> list]

\* a JSON document without the city block
Malformed == [has_city |-> FALSE, list |-> <<Slot(0, DayIcon, 800, 30, TRUE)>>]

Responses ==
    {Response(list) : list \in SeqsUpTo(TimeSlots \cup WeatherSlots, MaxSlots)}
        \cup {Malformed}

----------------------------------------------------------------------------
(* Transformer harness: the same response transformed at two wall clocks *)

NotRun == <<>>

TInit ==
    /\ t_city \in {Cities[1]}
    /\ t_data \in Responses
    /\ t_now1 \in Clock
    /\ t_now2 \in Clock
    /\ t_run1 = NotRun
    /\ t_run2 = NotRun

FirstRun ==
    /\ t_run1 = NotRun
    /\ t_run1' = <<Transform(t_city, t_data, t_now1)>>
    /\ UNCHANGED <<t_city, t_data, t_now1, t_now2, t_run2>>
    /\ UNCHANGED pvars

SecondRun ==
    /\ t_run1 # NotRun
    /\ t_run2 = NotRun
    /\ t_run2' = <<Transform(t_city, t_data, t_now2)>>
    /\ UNCHANGED <<t_city, t_data, t_now1, t_now2, t_run1>>
    /\ UNCHANGED pvars

TIdle ==
    /\ t_city = Cities[1]
    /\ t_data = Response(<<>>)
    /\ t_now1 = 0
    /\ t_now2 = 0
    /\ t_run1 = NotRun
    /\ t_run2 = NotRun

----------------------------------------------------------------------------
(* Orchestrator: inputs *)

\* args.cities of length n: the two cities in turn, so a list of three or
\* more names a city twice (argparse accepts repeated city ids)
CodeList(n) == [i \in 1..n |-> Cities[((i - 1) % Len(Cities)) + 1]]

\* a forecast of n consecutive 3-hour slots; slot `broken` (0: none) lacks a key
Forecast(n, broken) ==
    [i \in 1..n |-> Slot((i - 1) * SlotHours * Hour, DayIcon, 800, 30, i # broken)]

\* the API answers a city with no slot at all or with a forecast of the
\* full length, any one slot of which may lack a key
Feed ==
    {Response(Forecast(0, 0))}
        \cup {Response(Forecast(FeedSlots, k)) : k \in 0..FeedSlots}

\* requests.get / raise_for_status / response.json raising, or a document
HttpError == [error |-> TRUE, data |-> Response(<<>>)]
Answer(data) == [error |-> FALSE, data |-> data]

GetOutcomes == {HttpError} \cup {Answer(d) : d \in Feed}
PostOutcomes == {"ok", "error"}

\* wall clock of the harvesting runs
RunClock == {10 * Hour}

Calls == DOMAIN codes

NoReport == <<>>

PStart(n, world) ==
    /\ codes = CodeList(n)
    /\ scenario = world
    /\ mainpc = "submit"
    /\ pc = [p \in 1..n |-> "new"]
    /\ out = [p \in 1..n |-> <<>>]
    /\ fetch_failed = [p \in 1..n |-> FALSE]
    /\ loaded = [p \in 1..n |-> 0]
    /\ post_status = [p \in 1..n |-> "none"]
    /\ sent = [p \in 1..n |-> <<>>]
    /\ ret = [p \in 1..n |-> 0]
    /\ persisted_entities = 0
    /\ in_error_entities = <<>>
    /\ report = NoReport

\* what the forecast API may answer to a GET for city_code.  "any": any
\* answer to any request.  "pool": the first city is always served one slot,
\* the second is either not served or served one slot.
Upstream(city_code) ==
    IF scenario = "any" THEN GetOutcomes
    ELSE IF city_code = Cities[1] THEN {Answer(Response(Forecast(1, 0)))}
    ELSE {HttpError, Answer(Response(Forecast(1, 0)))}

\* what the context broker may answer to a POST for city_code.  "pool": the
\* first city is always accepted, the second always refused.
Broker(city_code) ==
    IF scenario = "any" THEN PostOutcomes
    ELSE IF city_code = Cities[1] THEN {"ok"}
    ELSE {"error"}

----------------------------------------------------------------------------
(* Orchestrator: the worker pool *)

Running == {p \in Calls : pc[p] \in {"get", "post", "store"}}

FreeWorker_unbounded == TRUE

\* ThreadPoolExecutor(max_workers=5): a work item is taken only by one of
\* at most MaxWorkers worker threads, each running one item at a time
FreeWorker == Cardinality(Running) < MaxWorkers

AllFinished_no_wait == TRUE

\* concurrent.futures.wait(futures), then the executor's shutdown(wait=True)
AllFinished == \A p \in Calls : pc[p] = "done"

\* executor.submit(get_weather_by_code, code, appid), in the order of codes
Submit(p) ==
    /\ mainpc = "submit"
    /\ p \in Calls
    /\ pc[p] = "new"
    /\ \A q \in Calls : q < p => pc[q] # "new"
    /\ pc' = [pc EXCEPT ![p] = "queued"]
    /\ mainpc' = IF p = Len(codes) THEN "wait" ELSE "submit"
    /\ UNCHANGED <<codes, scenario, out, fetch_failed, loaded,
                   post_status, sent, ret, persisted_entities,
                   in_error_entities, report>>
    /\ UNCHANGED tvars

\* a worker thread takes the oldest work item off the queue
Start(p) ==
    /\ p \in Calls
    /\ pc[p] = "queued"
    /\ \A q \in Calls : q < p => pc[q] # "queued"
    /\ FreeWorker
    /\ pc' = [pc EXCEPT ![p] = "get"]
    /\ UNCHANGED <<codes, scenario, mainpc, out, fetch_failed, loaded,
                   post_status, sent, ret, persisted_entities,
                   in_error_entities, report>>
    /\ UNCHANGED tvars

----------------------------------------------------------------------------
(* Orchestrator: the per-city pipeline *)

post_data_always_posts(data) == FALSE

\* post_data: if len(data) == 0: return
post_data_returns_early(data) == Len(data) = 0

Request(data) ==
    [url |-> "v2/op/update", actionType |-> "APPEND", entities |-> data]

RecordFailure_dropped(list, city_code) == list

RecordFailure_twice(list, city_code) == Append(Append(list, city_code), city_code)

\* in_error_entities.append(city_code)
RecordFailure(list, city_code) == Append(list, city_code)

\* get_weather_by_code up to and including the entry of post_data: the GET,
\* the transformation, the except branch, and post_data's empty-batch return
Get(p) ==
    /\ p \in Calls
    /\ pc[p] = "get"
    /\ \E o \in Upstream(codes[p]), now \in RunClock :
         LET r == IF o.error THEN [out |-> <<>>, raised |-> TRUE]
                  ELSE Transform(codes[p], o.data, now)
         IN /\ out' = [out EXCEPT ![p] = r.out]
            /\ fetch_failed' = [fetch_failed EXCEPT ![p] = r.raised]
            /\ IF post_data_returns_early(r.out)
               THEN /\ pc' = [pc EXCEPT ![p] = "done"]
                    /\ ret' = [ret EXCEPT ![p] = Len(r.out)]
               ELSE /\ pc' = [pc EXCEPT ![p] = "post"]
                    /\ ret' = ret
    /\ UNCHANGED <<codes, scenario, mainpc, loaded, post_status, sent,
                   persisted_entities, in_error_entities, report>>
    /\ UNCHANGED tvars

\* requests.post answered 2xx, then the read of the global in
\* persisted_entities = persisted_entities + len(data)
PostOk(p) ==
    /\ p \in Calls
    /\ pc[p] = "post"
    /\ "ok" \in Broker(codes[p])
    /\ sent' = [sent EXCEPT ![p] = Append(@, Request(out[p]))]
    /\ post_status' = [post_status EXCEPT ![p] = "ok"]
    /\ loaded' = [loaded EXCEPT ![p] = persisted_entities]
    /\ pc' = [pc EXCEPT ![p] = "store"]
    /\ UNCHANGED <<codes, scenario, mainpc, out, fetch_failed, ret,
                   persisted_entities, in_error_entities, report>>
    /\ UNCHANGED tvars

\* the write of the global, then both functions return
Store(p) ==
    /\ p \in Calls
    /\ pc[p] = "store"
    /\ persisted_entities' = loaded[p] + Len(out[p])
    /\ loaded' = [loaded EXCEPT ![p] = 0]
    /\ pc' = [pc EXCEPT ![p] = "done"]
    /\ ret' = [ret EXCEPT ![p] = Len(out[p])]
    /\ UNCHANGED <<codes, scenario, mainpc, out, fetch_failed,
                   post_status, sent, in_error_entities, report>>
    /\ UNCHANGED tvars

\* requests.post or raise_for_status raised: the except branch of post_data
PostFail(p) ==
    /\ p \in Calls
    /\ pc[p] = "post"
    /\ "error" \in Broker(codes[p])
    /\ sent' = [sent EXCEPT ![p] = Append(@, Request(out[p]))]
    /\ post_status' = [post_status EXCEPT ![p] = "failed"]
    /\ in_error_entities' = RecordFailure(in_error_entities, codes[p])
    /\ pc' = [pc EXCEPT ![p] = "done"]
    /\ ret' = [ret EXCEPT ![p] = Len(out[p])]
    /\ UNCHANGED <<codes, scenario, mainpc, out, fetch_failed, loaded,
                   persisted_entities, report>>
    /\ UNCHANGED tvars

----------------------------------------------------------------------------
(* Orchestrator: the main thread *)

WaitAll ==
    /\ mainpc = "wait"
    /\ AllFinished
    /\ mainpc' = "report"
    /\ UNCHANGED <<codes, scenario, pc, out, fetch_failed, loaded,
                   post_status, sent, ret, persisted_entities,
                   in_error_entities, report>>
    /\ UNCHANGED tvars

\* the three logger.info lines that close __main__
Report ==
    /\ mainpc = "report"
    /\ report' = <<[persisted |-> persisted_entities,
                    in_error |-> in_error_entities]>>
    /\ mainpc' = "done"
    /\ UNCHANGED <<codes, scenario, pc, out, fetch_failed, loaded,
                   post_status, sent, ret, persisted_entities,
                   in_error_entities>>
    /\ UNCHANGED tvars

----------------------------------------------------------------------------
(* Specifications *)

Next ==
    \/ \E p \in Calls : Submit(p)
    \/ \E p \in Calls : Start(p)
    \/ \E p \in Calls : Get(p)
    \/ \E p \in Calls : PostOk(p)
    \/ \E p \in Calls : Store(p)
    \/ \E p \in Calls : PostFail(p)
    \/ WaitAll
    \/ Report

Init ==
    /\ \E n \in 1..MaxCodes : PStart(n, "any")
    /\ TIdle

Spec == Init /\ [][Next]_vars

\* Every HTTP call returns or raises and every thread that can run is
\* eventually scheduled: as long as some step is possible, a step is taken.
\* (Fairness for each thread separately implies this.)
Fairness == WF_vars(Next)

FairSpec == Spec /\ Fairness

PoolInit ==
    /\ PStart(MaxWorkers + Overflow, "pool")
    /\ TIdle

PoolSpec == PoolInit /\ [][Next]_vars

TransformInit ==
    /\ PStart(0, "any")
    /\ TInit

TransformNext == FirstRun \/ SecondRun

TransformSpec == TransformInit /\ [][TransformNext]_vars

----------------------------------------------------------------------------
(* Vocabulary of the properties *)

EveryCallDone == \A p \in Calls : pc[p] = "done"

Count(list, x) == Cardinality({i \in DOMAIN list : list[i] = x})

Published == {p \in Calls : post_status[p] = "ok" /\ pc[p] = "done"}
Refused == {p \in Calls : post_status[p] = "failed"}
CallsFor(c) == {p \in Calls : codes[p] = c}
RequestedCities == {codes[p] : p \in Calls}

RECURSIVE BatchTotal(_)
BatchTotal(S) ==
    IF S = {} THEN 0
    ELSE LET p == CHOOSE q \in S : TRUE
         IN Len(out[p]) + BatchTotal(S \ {p})

----------------------------------------------------------------------------
(* C1 *)

\* C1: once every pipeline has finished, persisted_entities equals the sum
\* of the batch sizes of the cities that were fetched and published: no
\* increment is lost or duplicated, whatever the interleaving.
C1_CounterIsSumOfPublishedBatches ==
    EveryCallDone => persisted_entities = BatchTotal(Published)

----------------------------------------------------------------------------
(* C2 *)

\* The counter is made of batches that were published, and of nothing else.
CounterOnlyFromPublished ==
    /\ \E S \in SUBSET {p \in Calls : post_status[p] = "ok"} :
          persisted_entities = BatchTotal(S)
    /\ \A p \in Refused : pc[p] = "done" /\ loaded[p] = 0

\* C2 as stated: once every pipeline has finished, the code of every city
\* whose publish failed is in in_error_entities exactly once, and the counter
\* holds nothing of that city's batch.
C2_FailedCityListedExactlyOnce ==
    /\ EveryCallDone =>
          \A p \in Refused : Count(in_error_entities, codes[p]) = 1
    /\ CounterOnlyFromPublished

\* C2, amended: once every pipeline has finished, each city code is in
\* in_error_entities once per failed publish request for that city (so
\* exactly once when the city was requested once), and the counter holds
\* nothing of a batch whose publish failed.
C2_FailedCityListedOncePerFailure ==
    /\ EveryCallDone =>
          \A c \in RequestedCities \cup {in_error_entities[i] : i \in DOMAIN in_error_entities} :
              Count(in_error_entities, c) = Cardinality(Refused \cap CallsFor(c))
    /\ CounterOnlyFromPublished

C2_Witness ==
    /\ EveryCallDone
    /\ \E p, q \in Refused : p # q /\ codes[p] = codes[q]
    /\ \E p \in Published : persisted_entities = Len(out[p])

----------------------------------------------------------------------------
(* C3 *)

\* C3: a call whose fetch, parse or transformation failed has produced zero
\* entities, has published nothing and returns 0.
C3_FailureYieldsNoEntities ==
    \A p \in Calls :
        fetch_failed[p] => out[p] = <<>> /\ sent[p] = <<>> /\ ret[p] = 0

----------------------------------------------------------------------------
(* C4 *)

\* C4: at most 5 city pipelines are in progress at any time, and a sixth or
\* later city has started only if an earlier pipeline has finished.
C4_AtMostFivePipelines ==
    /\ Cardinality({p \in Calls : pc[p] \in {"get", "post", "store"}}) <= MaxWorkers
    /\ \A p \in Calls :
          p > MaxWorkers /\ pc[p] \notin {"new", "queued"}
              => \E q \in Calls : q < p /\ pc[q] = "done"

C4_Witness ==
    /\ Cardinality({p \in Calls : pc[p] \in {"get", "post", "store"}}) = MaxWorkers
    /\ \E p \in Calls : p > MaxWorkers /\ pc[p] = "get"

----------------------------------------------------------------------------
(* C5 *)

Reported == report # NoReport

\* C5: the statistics are reported only when every submitted pipeline has
\* reached its end; the report is eventually produced; and the counters are
\* not changed once the report has been read.
C5_ReportAfterEveryPipeline ==
    /\ [](Reported =>
            /\ EveryCallDone
            /\ report[1].persisted = persisted_entities
            /\ report[1].in_error = in_error_entities)
    /\ <>Reported
    /\ [][Reported => UNCHANGED <<persisted_entities, in_error_entities>>]_vars

C5_Witness ==
    /\ Reported
    /\ Published # {}
    /\ Refused # {}
    /\ \E p \in Calls : fetch_failed[p]

----------------------------------------------------------------------------
(* C7 *)

RECURSIVE PostTotal(_)
PostTotal(S) ==
    IF S = {} THEN 0
    ELSE LET p == CHOOSE q \in S : TRUE
         IN Len(sent[p]) + PostTotal(S \ {p})

PostsFor(c) == PostTotal(CallsFor(c))

\* C7: a pipeline issues one POST, carrying its whole batch, when the batch
\* is not empty and none when it is empty; it never issues a second one, so
\* a city is POSTed at most as often as it was requested.
C7_OnePostPerNonEmptyBatch ==
    /\ \A p \in Calls :
          /\ Len(sent[p]) <= 1
          /\ pc[p] \in {"store", "done"} =>
                IF out[p] = <<>>
                THEN sent[p] = <<>>
                ELSE /\ Len(sent[p]) = 1
                     /\ sent[p][1].entities = out[p]
                     /\ sent[p][1].actionType = "APPEND"
    /\ \A c \in RequestedCities : PostsFor(c) <= Count(codes, c)

C7_Witness ==
    /\ EveryCallDone
    /\ \E p \in Calls : out[p] = <<>> /\ ~fetch_failed[p] /\ sent[p] = <<>>
    /\ \E p \in Refused : Len(sent[p]) = 1 /\ Len(sent[p][1].entities) = 2

----------------------------------------------------------------------------
(* C10 *)

----------------------------------------------------------------------------
(* Vocabulary of the transformer properties *)

BothRun == t_run1 # NotRun /\ t_run2 # NotRun

Entities(run) == run[1].out

Ids(run) == [i \in DOMAIN Entities(run) |-> Entities(run)[i].id]

SameUtcDay(a, b) == a \div Day = b \div Day

\* a timestamp on a 3-hour boundary
OnSlotBoundary(dt) == dt % (SlotHours * Hour) = 0

----------------------------------------------------------------------------
(* C6 *)

\* C6 as stated: two transformations of the same forecast data give the same
\* entity identifiers, whatever the wall clocks of the two runs.
C6_SameIdsAtAnyClock ==
    BothRun => Ids(t_run1) = Ids(t_run2)

\* C6, amended: two transformations of the same forecast data give the same
\* entity identifiers when both runs start on the same UTC day.
C6_SameIdsOnSameDay ==
    BothRun /\ SameUtcDay(t_now1, t_now2) => Ids(t_run1) = Ids(t_run2)

C6_Witness ==
    /\ BothRun
    /\ t_now1 # t_now2
    /\ SameUtcDay(t_now1, t_now2)
    /\ Len(Entities(t_run1)) >= 2
    /\ Ids(t_run1) = Ids(t_run2)

----------------------------------------------------------------------------
(* C8 *)

IconMarksNight(forecast) ==
    forecast.icon # <<>> /\ forecast.icon[Len(forecast.icon)] = "n"
IconMarksDay(forecast) ==
    forecast.icon # <<>> /\ forecast.icon[Len(forecast.icon)] = "d"

Classified(e) == "weatherType" \in DOMAIN e

\* The reference rule for one slot and the entity emitted for it.
FollowsRule(forecast, e) ==
    LET mapped == IF forecast.id \in DOMAIN OWM_WEATHER_MAPPING
                  THEN OWM_WEATHER_MAPPING[forecast.id] ELSE None
    IN /\ mapped = None => ~Classified(e)
       /\ mapped # None =>
            /\ Classified(e)
            /\ e.weatherType.value \in {mapped, mapped \o ", night"}
            /\ IconMarksNight(forecast) => e.weatherType.value = mapped \o ", night"
            /\ IconMarksDay(forecast) => e.weatherType.value = mapped
            /\ ~IconMarksNight(forecast) /\ ~IconMarksDay(forecast) =>
                  (e.weatherType.value = mapped \o ", night"
                      <=> forecast.alt < TwilightAltitude)

\* C8: the classification of every emitted entity follows the reference
\* rule: absent for a code mapped to None; otherwise the mapped string, with
\* ", night" appended exactly when the slot is night, the icon's marker
\* deciding and the solar altitude below -6 degrees deciding only without one.
C8_ClassificationFollowsRule ==
    t_run1 # NotRun =>
        \A i \in DOMAIN Entities(t_run1) :
            FollowsRule(t_data.list[i], Entities(t_run1)[i])

C8_Witness ==
    /\ t_run1 # NotRun
    /\ \E i, j \in DOMAIN Entities(t_run1) :
          /\ t_data.list[i].icon = NightIcon
          /\ t_data.list[i].alt >= TwilightAltitude
          /\ t_data.list[i].id = 800
          /\ Classified(Entities(t_run1)[i])
          /\ Entities(t_run1)[i].weatherType.value = "sunnyDay, night"
          /\ t_data.list[j].id = 905
          /\ ~Classified(Entities(t_run1)[j])

----------------------------------------------------------------------------
(* C9 *)

\* C9: within one fetch, two slots whose timestamps are distinct multiples
\* of 3 hours get distinct identifiers.
C9_DistinctSlotsDistinctIds ==
    t_run1 # NotRun =>
        \A i, j \in DOMAIN Entities(t_run1) :
            /\ i # j
            /\ t_data.list[i].dt # t_data.list[j].dt
            /\ OnSlotBoundary(t_data.list[i].dt)
            /\ OnSlotBoundary(t_data.list[j].dt)
            => Entities(t_run1)[i].id # Entities(t_run1)[j].id

C9_Witness ==
    /\ t_run1 # NotRun
    /\ \E i, j \in DOMAIN Entities(t_run1) :
          /\ t_data.list[i].dt = 0
          /\ t_data.list[j].dt = Day
          /\ Entities(t_run1)[i].id # Entities(t_run1)[j].id

====
